---- MODULE Spec2Model ----
(***************************************************************************)
(* Orders / products / gateway services of nameko-devex.                   *)
(*                                                                         *)
(* State: the Redis hashes behind the product storage, the orders table,   *)
(* the events dispatched by the orders service, and one gateway request    *)
(* in flight (its position, its local variables, the downstream calls it   *)
(* has issued and its outcome).  The stores are shared: the storage and    *)
(* orders operations of other workers interleave with the steps of the     *)
(* gateway request.  The gateway is GatewayService; the gateapi routers     *)
(* (_list_order, _get_order, _create_order) take the same steps.           *)
(***************************************************************************)
EXTENDS Integers, Sequences, FiniteSets, TLC

\* ------------------------------------------------------------------ bounds
MaxOrders == 2     \* order ids the orders table hands out
MaxPage == 2       \* largest "page" query argument
MaxLimit == 2      \* largest "limit" query argument
MaxStock == 0      \* largest in_stock of a created product
MaxDebt == 1       \* decrement_stock is followed down to in_stock = -MaxDebt

ProductIds == {"p1", "p2"}
\* posted line items: product_id, price, quantity
ItemA == [product_id |-> "p1", price |-> 10, quantity |-> 1]
ItemB == [product_id |-> "p2", price |-> 25, quantity |-> 2]
\* posted orders: no line item, one, two of one product, two of two products
OrderInputs == { <<>>, <<ItemA>>, <<ItemA, ItemA>>, <<ItemB, ItemA>> }
Amounts == {1}

IMAGE_ROOT == "http://img" \* config['PRODUCT_IMAGE_ROOT']

\* ----------------------------------------------------------------- helpers
Range(s) == { s[i] : i \in DOMAIN s }

\* every list that enumerates the set S once (the lists `list(set(...))` can give)
ListsOf(S) == { s \in [1..Cardinality(S) -> S] : Range(s) = S }

Ok(v) == [status |-> "ok", value |-> v]
Err(kind, arg) == [status |-> "error", kind |-> kind, arg |-> arg]

\* ------------------------------------------------- products: StorageWrapper
\* the fields of a product, in the order in which _from_hash reads them
FieldOrder == <<"id", "title", "passenger_capacity", "maximum_speed", "in_stock">>

\* a value as Redis holds and returns it (bytes)
Bytes(v) == <<"bytes", v>>
\* bytes.decode('utf-8') and int(bytes)
Decode(b) == b[2]

_format_key(product_id) == "products:" \o product_id

Keys == { _format_key(p) : p \in ProductIds }

EmptyHash == <<>>

\* the product dictionaries the products service is asked to create
ProductInputs ==
    { [id |-> p, title |-> "title-" \o p, passenger_capacity |-> 4,
       maximum_speed |-> 9, in_stock |-> n] : p \in ProductIds, n \in 0..MaxStock }

VARIABLES
    client,         \* Redis: key -> hash (field -> bytes); the empty hash is no key
    orders,         \* orders table with its order_details rows, in id order
    next_order_id,  \* autoincrement of orders.id
    next_detail_id, \* autoincrement of order_details.id
    events,         \* events handed to the broker by event_dispatcher
    pc,             \* position of the gateway request
    op,             \* the gateway entrypoint being served
    args,           \* its arguments
    local,          \* its local variables between two downstream calls
    calls,          \* the downstream calls and store accesses it has made
    result,         \* its outcome
    worker          \* the service workers serving one rpc each, called directly

vars == <<client, orders, next_order_id, next_detail_id, events,
          pc, op, args, local, calls, result, worker>>
storeVars == <<client, orders, next_order_id, next_detail_id, events>>
reqVars == <<pc, op, args, local, calls, result>>

\* _from_hash(document, product_id)
_from_hash(document, product_id) ==
    IF DOMAIN document = {}
    THEN Err("NotFound", product_id)
    ELSE IF \E i \in 1..Len(FieldOrder) : FieldOrder[i] \notin DOMAIN document
    THEN Err("KeyError",
             FieldOrder[CHOOSE i \in 1..Len(FieldOrder) :
                 /\ FieldOrder[i] \notin DOMAIN document
                 /\ \A j \in 1..(i - 1) : FieldOrder[j] \in DOMAIN document])
    ELSE Ok([id |-> Decode(document["id"]),
             title |-> Decode(document["title"]),
             passenger_capacity |-> Decode(document["passenger_capacity"]),
             maximum_speed |-> Decode(document["maximum_speed"]),
             in_stock |-> Decode(document["in_stock"])])

\* get(product_id)
StorageGet(cl, product_id) ==
    _from_hash(cl[_format_key(product_id)], product_id)

\* client.keys('products:*')
ExistingKeys(cl) == { k \in Keys : DOMAIN cl[k] # {} }

\* list(product_ids): the generator run to its end, as the rpc of the products
\* service hands it to the caller.  The keys are visited in
\* the order of a set (or of KEYS), which is any order: the first key that fails
\* to decode ends the run with its error, and any failing key can be that one.
StorageList(cl, product_ids) ==
    LET keys == IF Len(product_ids) > 0
                THEN { _format_key(p) : p \in Range(product_ids) }
                ELSE ExistingKeys(cl)
        docs == [k \in keys |-> _from_hash(cl[k], k)]
        bad == { k \in keys : docs[k].status = "error" }
    IN  IF bad = {}
        THEN { Ok({ docs[k].value : k \in keys }) }
        ELSE { docs[k] : k \in bad }

\* hmset(key, product)
Hmset(hash, product) ==
    [f \in DOMAIN hash \cup DOMAIN product |->
        IF f \in DOMAIN product THEN Bytes(product[f]) ELSE hash[f]]

\* set(key, value) with the amount taken in by the worker in the place of hincrby
HincrbyOverwrite(hash, field, increment) ==
    [f \in DOMAIN hash \cup {field} |->
        IF f = field THEN Bytes(increment) ELSE hash[f]]

\* hincrby(key, field, increment)
Hincrby(hash, field, increment) ==
    LET old == IF field \in DOMAIN hash THEN Decode(hash[field]) ELSE 0
    IN  [f \in DOMAIN hash \cup {field} |->
            IF f = field THEN Bytes(old + increment) ELSE hash[f]]


\* --------------------------------------------------- orders: OrdersService
\* total // limit in the place of math.ceil(total / limit)
CeilFloor(total, limit) == total \div limit

\* math.ceil(total / limit), limit >= 1
Ceil(total, limit) ==
    IF total % limit = 0 THEN total \div limit ELSE (total \div limit) + 1

\* db.query(Order).limit(limit), the offset dropped
LimitNoOffset(rows, limit, offset) ==
    SubSeq(rows, 1, IF limit < Len(rows) THEN limit ELSE Len(rows))

\* db.query(Order).limit(limit).offset(offset)
LimitOffset(rows, limit, offset) ==
    SubSeq(rows, offset + 1,
           IF offset + limit < Len(rows) THEN offset + limit ELSE Len(rows))

\* db.query(Order).get(order_id): the row, or nothing
QueryGet(rows, order_id) == { o \in Range(rows) : o.id = order_id }

\* OrdersService.get(order_id)
OrdersGet(rows, order_id) ==
    IF QueryGet(rows, order_id) = {}
    THEN Err("NotFound", order_id)
    ELSE Ok(CHOOSE o \in QueryGet(rows, order_id) : TRUE)

\* list(page, limit) with the page test written page < 0, on a database that
\* reads a negative offset as none
OrdersListPageFromZero(rows, page, limit) ==
    IF page < 0 THEN Err("InvalidQueryParam", "page")
    ELSE IF limit < 1 THEN Err("InvalidQueryParam", "limit")
    ELSE LET offset == IF page = 0 THEN 0 ELSE (page - 1) * limit
             total == Len(rows)
             total_pages == Ceil(total, limit)
             has_next == page < total_pages
         IN  Ok([page |-> page, limit |-> limit, total |-> total,
                 total_pages |-> total_pages, has_next |-> has_next,
                 data |-> LimitOffset(rows, limit, offset)])

\* list(page, limit) with has_next written page <= total_pages
OrdersListHasNextInclusive(rows, page, limit) ==
    IF page < 1 THEN Err("InvalidQueryParam", "page")
    ELSE IF limit < 1 THEN Err("InvalidQueryParam", "limit")
    ELSE LET offset == (page - 1) * limit
             total == Len(rows)
             total_pages == Ceil(total, limit)
             has_next == page <= total_pages
         IN  Ok([page |-> page, limit |-> limit, total |-> total,
                 total_pages |-> total_pages, has_next |-> has_next,
                 data |-> LimitOffset(rows, limit, offset)])

\* OrdersService.list(page, limit)
OrdersList(rows, page, limit) ==
    IF page < 1 THEN Err("InvalidQueryParam", "page")
    ELSE IF limit < 1 THEN Err("InvalidQueryParam", "limit")
    ELSE LET offset == (page - 1) * limit
             total == Len(rows)
             total_pages == Ceil(total, limit)
             has_next == page < total_pages
         IN  Ok([page |-> page, limit |-> limit, total |-> total,
                 total_pages |-> total_pages, has_next |-> has_next,
                 data |-> LimitOffset(rows, limit, offset)])

\* Order(order_details=[OrderDetail(...) ...]) as committed: the ids come from
\* the two autoincrements
NewOrder(order_details, order_id, detail_id) ==
    [id |-> order_id,
     order_details |->
        [i \in 1..Len(order_details) |->
            [id |-> detail_id + i - 1,
             product_id |-> order_details[i].product_id,
             price |-> order_details[i].price,
             quantity |-> order_details[i].quantity]]]

\* ------------------------------------------------------ gateway: exceptions
\* a remote exception as the gateway raises it
RemoteError(service, err) ==
    IF service = "products" /\ err.kind = "NotFound"
    THEN Err("ProductNotFound", err.arg)
    ELSE IF service = "orders" /\ err.kind = "NotFound"
    THEN Err("OrderNotFound", err.arg)
    ELSE IF service = "orders" /\ err.kind = "InvalidQueryParam"
    THEN Err("OrderInvalidQueryParam", err.arg)
    ELSE Err("RemoteError", err.kind)

NoResult == [status |-> "none"]
NoLocal == <<>>

\* the workers of a service that serve the rpcs called on it directly
Workers == {"w1", "w2"}
\* a worker before it is given an rpc
NoWorker == [pc |-> "idle", op |-> "none", args |-> <<>>, ret |-> NoResult]
Idle == pc = "idle"

DEFAULT_LIMIT == 5
DEFAULT_PAGE == 1

\* the product ids of the line items without the set(): one per line item
ProductIdListRaw(order_details) ==
    { [i \in DOMAIN order_details |-> order_details[i].product_id] }

\* list(set(item['product_id'] for item in order_details)): any order of the set
ProductIdLists(order_details) ==
    ListsOf({ order_details[i].product_id : i \in DOMAIN order_details })

\* the line items of every order of a page, in page order
RECURSIVE PageItems(_)
PageItems(data) ==
    IF data = <<>> THEN <<>>
    ELSE Head(data).order_details \o PageItems(Tail(data))

\* the map with every id given the same product, whichever comes first
ProductMapAny(products) ==
    [pid \in { prod.id : prod \in products } |->
        CHOOSE prod \in products : TRUE]

\* {prod['id']: prod for prod in products}
ProductMap(products) ==
    [pid \in { prod.id : prod \in products } |->
        CHOOSE prod \in products : prod.id = pid]

\* '{}/{}.jpg'.format(image_root, product_id)
ImageUrl(image_root, product_id) == image_root \o "/" \o product_id \o ".jpg"

\* the loop over order['order_details']: item['product'], item['image']
EnrichDetails(order_details, product_map) ==
    [i \in DOMAIN order_details |->
        [id |-> order_details[i].id,
         product_id |-> order_details[i].product_id,
         price |-> order_details[i].price,
         quantity |-> order_details[i].quantity,
         product |-> product_map[order_details[i].product_id],
         image |-> ImageUrl(IMAGE_ROOT, order_details[i].product_id)]]

EnrichOrder(order, product_map) ==
    [id |-> order.id, order_details |-> EnrichDetails(order.order_details, product_map)]

\* product_map[product_id] of an id the map lacks raises KeyError
MissingIn(items, product_map) ==
    { i \in DOMAIN items : items[i].product_id \notin DOMAIN product_map }

FirstMissing(items, product_map) ==
    items[CHOOSE i \in MissingIn(items, product_map) :
              \A j \in MissingIn(items, product_map) : i <= j].product_id

\* ------------------------------------------------ actions: products service
\* StorageWrapper.create(product)
ProductsCreate(product) ==
    /\ client' = [client EXCEPT ![_format_key(product.id)] = Hmset(@, product)]
    /\ UNCHANGED <<orders, next_order_id, next_detail_id, events>>
    /\ UNCHANGED reqVars
    /\ UNCHANGED worker

\* StorageWrapper.delete(product_id): NotFound changes nothing
ProductsDelete(product_id) ==
    /\ LET key == _format_key(product_id)
           product_exists == DOMAIN client[key] # {}
       IN  IF ~product_exists
           THEN UNCHANGED client
           ELSE client' = [client EXCEPT ![key] = EmptyHash]
    /\ UNCHANGED <<orders, next_order_id, next_detail_id, events>>
    /\ UNCHANGED reqVars
    /\ UNCHANGED worker

\* StorageWrapper.decrement_stock(product_id, amount)
DecrementStock(product_id, amount) ==
    /\ LET key == _format_key(product_id)
           hash == Hincrby(client[key], "in_stock", -amount)
       IN  /\ Decode(hash["in_stock"]) >= -MaxDebt
           /\ client' = [client EXCEPT ![key] = hash]
    /\ UNCHANGED <<orders, next_order_id, next_detail_id, events>>
    /\ UNCHANGED reqVars
    /\ UNCHANGED worker

\* -------------------------------------------------- actions: orders service
\* OrdersService.delete(order_id) called by another client: db.delete of no
\* row raises and changes nothing
OrdersDelete(order_id) ==
    /\ IF QueryGet(orders, order_id) = {}
       THEN UNCHANGED orders
       ELSE orders' = SelectSeq(orders, LAMBDA o : o.id # order_id)
    /\ UNCHANGED <<client, next_order_id, next_detail_id, events>>
    /\ UNCHANGED reqVars
    /\ UNCHANGED worker

\* ---------------------------------------------------------- actions: gateway
\* _get_orders without the early return
EmptyPageNever(page) == FALSE

\* len(orders['data']) == 0
EmptyPage(page) == Len(page.data) = 0

\* GET /orders: get_orders and _get_orders up to the test of an empty page
GetOrders(request_args) ==
    /\ Idle
    /\ LET limit == IF "limit" \notin DOMAIN request_args
                    THEN DEFAULT_LIMIT ELSE request_args["limit"]
           page == IF "page" \notin DOMAIN request_args
                   THEN DEFAULT_PAGE ELSE request_args["page"]
           listed == OrdersList(orders, page, limit)
           rpc == [call |-> "orders.list", page |-> page, limit |-> limit]
       IN  /\ op' = "get_orders"
           /\ args' = request_args
           /\ IF listed.status = "error"
              THEN /\ calls' = <<rpc>>
                   /\ result' = RemoteError("orders", listed)
                   /\ local' = NoLocal
                   /\ pc' = "done"
              ELSE /\ calls' = <<rpc, [call |-> "db.query"]>>
                   /\ IF EmptyPage(listed.value)
                      THEN /\ result' = listed
                           /\ local' = NoLocal
                           /\ pc' = "done"
                      ELSE /\ result' = NoResult
                           /\ local' = listed.value
                           /\ pc' = "enrich"
    /\ UNCHANGED storeVars
    /\ UNCHANGED worker

\* _get_orders from the product lookup to the return
EnrichOrders ==
    /\ pc = "enrich"
    /\ op = "get_orders"
    /\ \E order_product_ids \in ProductIdLists(PageItems(local.data)) :
       \E products \in StorageList(client, order_product_ids) :
        /\ calls' = Append(calls, [call |-> "products.list",
                                   product_ids |-> order_product_ids])
        /\ IF products.status = "error"
           THEN result' = RemoteError("products", products)
           ELSE LET product_map == ProductMap(products.value)
                IN  IF MissingIn(PageItems(local.data), product_map) # {}
                    THEN result' = Err("KeyError",
                                       FirstMissing(PageItems(local.data), product_map))
                    ELSE result' = Ok([local EXCEPT !.data =
                            [i \in DOMAIN local.data |->
                                EnrichOrder(local.data[i], product_map)]])
    /\ pc' = "done"
    /\ local' = NoLocal
    /\ UNCHANGED <<op, args>>
    /\ UNCHANGED storeVars
    /\ UNCHANGED worker

\* GET /orders/<order_id>: get_order and _get_order up to the product lookup
GetOrder(order_id) ==
    /\ Idle
    /\ LET got == OrdersGet(orders, order_id)
       IN  /\ op' = "get_order"
           /\ args' = [order_id |-> order_id]
           /\ calls' = <<[call |-> "orders.get", order_id |-> order_id],
                         [call |-> "db.query"]>>
           /\ IF got.status = "error"
              THEN /\ result' = RemoteError("orders", got)
                   /\ local' = NoLocal
                   /\ pc' = "done"
              ELSE /\ result' = NoResult
                   /\ local' = got.value
                   /\ pc' = "enrich"
    /\ UNCHANGED storeVars
    /\ UNCHANGED worker

\* _get_order from the product lookup to the return
EnrichOne ==
    /\ pc = "enrich"
    /\ op = "get_order"
    /\ \E order_product_ids \in ProductIdLists(local.order_details) :
       \E products \in StorageList(client, order_product_ids) :
        /\ calls' = Append(calls, [call |-> "products.list",
                                   product_ids |-> order_product_ids])
        /\ IF products.status = "error"
           THEN result' = RemoteError("products", products)
           ELSE LET product_map == ProductMap(products.value)
                IN  IF MissingIn(local.order_details, product_map) # {}
                    THEN result' = Err("KeyError",
                                       FirstMissing(local.order_details, product_map))
                    ELSE result' = Ok(EnrichOrder(local, product_map))
    /\ pc' = "done"
    /\ local' = NoLocal
    /\ UNCHANGED <<op, args>>
    /\ UNCHANGED storeVars
    /\ UNCHANGED worker

\* POST /orders: create_order, _create_order and _check_order_products
CreateOrder(order_details) ==
    /\ Idle
    /\ next_order_id <= MaxOrders
    /\ op' = "create_order"
    /\ args' = [order_details |-> order_details]
    /\ \E order_product_ids \in ProductIdLists(order_details) :
       \E products \in StorageList(client, order_product_ids) :
        /\ calls' = <<[call |-> "products.list", product_ids |-> order_product_ids]>>
        /\ IF products.status = "error"
           THEN /\ result' = RemoteError("products", products)
                /\ local' = NoLocal
                /\ pc' = "done"
           ELSE LET valid_product_ids == { prod.id : prod \in products.value }
                    invalid == { i \in DOMAIN order_details :
                                   order_details[i].product_id \notin valid_product_ids }
                IN  IF invalid # {}
                    THEN /\ result' = Err("ProductNotFound",
                                order_details[CHOOSE i \in invalid :
                                    \A j \in invalid : i <= j].product_id)
                         /\ local' = NoLocal
                         /\ pc' = "done"
                    ELSE /\ result' = NoResult
                         /\ local' = order_details
                         /\ pc' = "create"
    /\ UNCHANGED storeVars
    /\ UNCHANGED worker

\* OrdersService.create without db.add and db.commit: the order is built and
\* dumped, and nothing reaches the table
OrdersCreateUncommitted ==
    /\ pc = "create"
    /\ LET order == NewOrder(local, next_order_id, next_detail_id)
       IN  /\ orders' = orders
           /\ next_order_id' = next_order_id + 1
           /\ next_detail_id' = next_detail_id + Len(local)
           /\ local' = order
           /\ calls' = Append(calls, [call |-> "orders.create", order_details |-> local])
    /\ pc' = "dispatch"
    /\ UNCHANGED <<client, events, op, args, result>>
    /\ UNCHANGED worker

\* orders_rpc.create: OrdersService.create up to the commit and the dump
OrdersCreate ==
    /\ pc = "create"
    /\ LET order == NewOrder(local, next_order_id, next_detail_id)
       IN  /\ orders' = Append(orders, order)
           /\ next_order_id' = next_order_id + 1
           /\ next_detail_id' = next_detail_id + Len(local)
           /\ local' = order
           /\ calls' = calls \o <<[call |-> "orders.create", order_details |-> local],
                                  [call |-> "db.commit", order_id |-> order.id]>>
    /\ pc' = "dispatch"
    /\ UNCHANGED <<client, events, op, args, result>>
    /\ UNCHANGED worker

\* OrdersService.create from event_dispatcher to the return, and the return
\* of _create_order.  The dispatch publishes to the broker and raises when the
\* broker does not take the message.
DispatchOrderCreated ==
    /\ pc = "dispatch"
    /\ \E published \in BOOLEAN :
        /\ calls' = Append(calls, [call |-> "event_dispatcher", published |-> published])
        /\ IF published
           THEN /\ events' = Append(events, [type |-> "order_created", order |-> local])
                /\ result' = Ok(local.id)
           ELSE /\ UNCHANGED events
                /\ result' = RemoteError("orders", Err("PublishError", local.id))
    /\ pc' = "done"
    /\ local' = NoLocal
    /\ UNCHANGED <<client, orders, next_order_id, next_detail_id, op, args>>
    /\ UNCHANGED worker

\* the response leaves the gateway and the worker is free again
Respond ==
    /\ pc = "done"
    /\ pc' = "idle"
    /\ op' = "none"
    /\ args' = <<>>
    /\ local' = NoLocal
    /\ calls' = <<>>
    /\ result' = NoResult
    /\ UNCHANGED storeVars
    /\ UNCHANGED worker

\* ------------------------------------- actions: products service, by worker
\* what a Python function without a return statement returns
None == "None"

\* the amounts decrement_stock is called with
StockAmounts == {1, 2}

\* the id collections list is called with: none given or empty, one id, two
ListInputs == { <<>> } \cup UNION { [1..n -> ProductIds] : n \in 1..2 }

Served(w, name, arguments, returned) ==
    worker' = [worker EXCEPT ![w] =
        [pc |-> "done", op |-> name, args |-> arguments, ret |-> returned]]

\* decrement_stock(product_id, amount): one HINCRBY, and its reply returned
RpcDecrementStock(w, product_id, amount) ==
    /\ worker[w].pc = "idle"
    /\ LET key == _format_key(product_id)
           hash == Hincrby(client[key], "in_stock", -amount)
       IN  /\ client' = [client EXCEPT ![key] = hash]
           /\ Served(w, "decrement_stock",
                     [product_id |-> product_id, amount |-> amount],
                     Ok(Decode(hash["in_stock"])))
    /\ UNCHANGED <<orders, next_order_id, next_detail_id, events>>
    /\ UNCHANGED reqVars

\* create(product): one HMSET
RpcCreate(w, product) ==
    /\ worker[w].pc = "idle"
    /\ client' = [client EXCEPT ![_format_key(product.id)] = Hmset(@, product)]
    /\ Served(w, "create", [product |-> product], Ok(None))
    /\ UNCHANGED <<orders, next_order_id, next_detail_id, events>>
    /\ UNCHANGED reqVars

\* get(product_id): one HGETALL
RpcGet(w, product_id) ==
    /\ worker[w].pc = "idle"
    /\ Served(w, "get", [product_id |-> product_id], StorageGet(client, product_id))
    /\ UNCHANGED storeVars
    /\ UNCHANGED reqVars

\* list(product_ids)
RpcList(w, product_ids) ==
    /\ worker[w].pc = "idle"
    /\ \E listed \in StorageList(client, product_ids) :
          Served(w, "list", [product_ids |-> product_ids], listed)
    /\ UNCHANGED storeVars
    /\ UNCHANGED reqVars

\* delete(product_id) up to the test of product_exists: one EXISTS
RpcDeleteExists(w, product_id) ==
    /\ worker[w].pc = "idle"
    /\ LET key == _format_key(product_id)
           product_exists == DOMAIN client[key] # {}
       IN  IF ~product_exists
           THEN Served(w, "delete", [product_id |-> product_id],
                       Err("NotFound", product_id))
           ELSE worker' = [worker EXCEPT ![w] =
                    [pc |-> "delete", op |-> "delete",
                     args |-> [product_id |-> product_id], ret |-> NoResult]]
    /\ UNCHANGED storeVars
    /\ UNCHANGED reqVars

\* delete(product_id), the else branch: one DEL
RpcDeleteDelete(w) ==
    /\ worker[w].pc = "delete"
    /\ client' = [client EXCEPT ![_format_key(worker[w].args.product_id)] = EmptyHash]
    /\ Served(w, "delete", worker[w].args, Ok(None))
    /\ UNCHANGED <<orders, next_order_id, next_detail_id, events>>
    /\ UNCHANGED reqVars

\* --------------------------------------- actions: orders service, by worker
\* a line item as update is handed it: the id of the row, a price, a quantity
Changed(detail_id) == [id |-> detail_id, price |-> 90 + detail_id, quantity |-> 7]

\* the orders update is called with: an order id that the table has handed out
\* or not, and line items for none, some, all or more of the rows of an order
UpdateInputs ==
    { [id |-> order_id, order_details |-> [i \in DOMAIN ids |-> Changed(ids[i])]] :
        order_id \in 1..(MaxOrders + 1),
        ids \in { <<>>, <<1>>, <<2>>, <<1, 2>>, <<3>>, <<2, 1, 3>> } }

\* {order_details['id']: order_details for order_details in order['order_details']}:
\* of two entries with one id the later one stays
DetailsById(order_details) ==
    [detail_id \in { order_details[i].id : i \in DOMAIN order_details } |->
        order_details[CHOOSE i \in DOMAIN order_details :
            /\ order_details[i].id = detail_id
            /\ \A j \in DOMAIN order_details :
                  order_details[j].id = detail_id => j <= i]]

\* the loop of update over the rows of the order, for rows the input has
UpdatedOrder(row, by_id) ==
    [row EXCEPT !.order_details =
        [i \in DOMAIN row.order_details |->
            [row.order_details[i] EXCEPT
                !.price = by_id[row.order_details[i].id].price,
                !.quantity = by_id[row.order_details[i].id].quantity]]]

\* OrdersService.update(order): what it returns or raises, and the table after
\* it.  Without a commit the session is closed with the worker and the table
\* keeps its rows.
OrdersUpdate(rows, order) ==
    LET by_id == DetailsById(order.order_details)
        row == CHOOSE o \in QueryGet(rows, order.id) : TRUE
        lacking == { i \in DOMAIN row.order_details :
                       row.order_details[i].id \notin DOMAIN by_id }
    IN  IF QueryGet(rows, order.id) = {}
        THEN [ret |-> Err("AttributeError", "order_details"), rows |-> rows]
        ELSE IF lacking # {}
        THEN [ret |-> Err("KeyError",
                       row.order_details[CHOOSE i \in lacking :
                                            \A j \in lacking : i <= j].id),
              rows |-> rows]
        ELSE [ret |-> Ok(UpdatedOrder(row, by_id)),
              rows |-> [k \in DOMAIN rows |->
                          IF rows[k].id = order.id
                          THEN UpdatedOrder(row, by_id) ELSE rows[k]]]

\* update(order) served by a worker
RpcOrdersUpdate(w, order) ==
    /\ worker[w].pc = "idle"
    /\ orders' = OrdersUpdate(orders, order).rows
    /\ Served(w, "update", [order |-> order], OrdersUpdate(orders, order).ret)
    /\ UNCHANGED <<client, next_order_id, next_detail_id, events>>
    /\ UNCHANGED reqVars

\* OrdersService.delete(order_id): db.delete of no row raises
\* UnmappedInstanceError before the commit
RpcOrdersDelete(w, order_id) ==
    /\ worker[w].pc = "idle"
    /\ IF QueryGet(orders, order_id) = {}
       THEN /\ UNCHANGED orders
            /\ Served(w, "delete", [order_id |-> order_id],
                      Err("UnmappedInstanceError", order_id))
       ELSE /\ orders' = SelectSeq(orders, LAMBDA o : o.id # order_id)
            /\ Served(w, "delete", [order_id |-> order_id], Ok(None))
    /\ UNCHANGED <<client, next_order_id, next_detail_id, events>>
    /\ UNCHANGED reqVars

\* OrdersService.get(order_id) served by a worker
RpcOrdersGet(w, order_id) ==
    /\ worker[w].pc = "idle"
    /\ Served(w, "get", [order_id |-> order_id], OrdersGet(orders, order_id))
    /\ UNCHANGED storeVars
    /\ UNCHANGED reqVars

\* ------------------------------------------------------------ specification
\* the query strings of GET /orders: page and limit, each given or not
QueryArgs ==
    UNION { { q \in [given -> -1..(IF MaxPage > MaxLimit THEN MaxPage ELSE MaxLimit)] :
                /\ "page" \in given => q["page"] <= MaxPage
                /\ "limit" \in given => q["limit"] <= MaxLimit }
            : given \in SUBSET {"page", "limit"} }

Init ==
    /\ client = [k \in Keys |-> EmptyHash]
    /\ orders = <<>>
    /\ next_order_id = 1
    /\ next_detail_id = 1
    /\ events = <<>>
    /\ pc = "idle"
    /\ op = "none"
    /\ args = <<>>
    /\ local = NoLocal
    /\ calls = <<>>
    /\ result = NoResult
    /\ worker = [w \in Workers |-> NoWorker]

\* the products service serving other requests; the stores are not followed
\* while a finished request waits for its response to leave, since nothing
\* they do then can reach it
StorageNext ==
    /\ pc # "done"
    /\ \/ \E product \in ProductInputs : ProductsCreate(product)
       \/ \E product_id \in ProductIds : ProductsDelete(product_id)
       \/ \E product_id \in ProductIds, amount \in Amounts :
             DecrementStock(product_id, amount)

\* order creation through the gateway, against a changing catalog and with
\* orders being deleted
Next ==
    \/ StorageNext
    \/ pc # "done" /\ \E order_id \in 1..MaxOrders : OrdersDelete(order_id)
    \/ \E order_details \in OrderInputs : CreateOrder(order_details)
    \/ OrdersCreate
    \/ DispatchOrderCreated
    \/ Respond

Spec == Init /\ [][Next]_vars

\* the orders tables that order creation leaves behind
RECURSIVE Tables(_)
Tables(n) ==
    IF n = 0 THEN { <<>> }
    ELSE Tables(n - 1) \cup
         { Append(t, NewOrder(d, Len(t) + 1, Len(PageItems(t)) + 1)) :
             t \in { u \in Tables(n - 1) : Len(u) = n - 1 }, d \in OrderInputs }

InitRead ==
    /\ client = [k \in Keys |-> EmptyHash]
    /\ orders \in Tables(MaxOrders)
    /\ next_order_id = Len(orders) + 1
    /\ next_detail_id = Len(PageItems(orders)) + 1
    /\ events = <<>>
    /\ pc = "idle"
    /\ op = "none"
    /\ args = <<>>
    /\ local = NoLocal
    /\ calls = <<>>
    /\ result = NoResult
    /\ worker = [w \in Workers |-> NoWorker]

\* reading orders through the gateway, against a changing catalog
NextRead ==
    \/ StorageNext
    \/ \E request_args \in QueryArgs : GetOrders(request_args)
    \/ EnrichOrders
    \/ \E order_id \in 1..MaxOrders : GetOrder(order_id)
    \/ EnrichOne
    \/ Respond

SpecRead == InitRead /\ [][NextRead]_vars

\* a catalog as create and delete leave it: each product has its record, with
\* some stock, or none
InitCatalog ==
    /\ \E present \in SUBSET ProductIds :
       \E stock \in [ProductIds -> 0..MaxStock] :
          client = [k \in Keys |->
              IF \E p \in present : _format_key(p) = k
              THEN Hmset(EmptyHash,
                         CHOOSE product \in ProductInputs :
                            /\ _format_key(product.id) = k
                            /\ product.in_stock = stock[product.id])
              ELSE EmptyHash]
    /\ orders = <<>>
    /\ next_order_id = 1
    /\ next_detail_id = 1
    /\ events = <<>>
    /\ pc = "idle"
    /\ op = "none"
    /\ args = <<>>
    /\ local = NoLocal
    /\ calls = <<>>
    /\ result = NoResult
    /\ worker = [w \in Workers |-> NoWorker]

\* two workers of the products service, each serving one rpc, on one Redis
NextCatalog ==
    \E w \in Workers :
        \/ \E product_id \in ProductIds, amount \in StockAmounts :
              RpcDecrementStock(w, product_id, amount)
        \/ \E product \in ProductInputs : RpcCreate(w, product)
        \/ \E product_id \in ProductIds : RpcGet(w, product_id)
        \/ \E product_ids \in ListInputs : RpcList(w, product_ids)
        \/ \E product_id \in ProductIds : RpcDeleteExists(w, product_id)
        \/ RpcDeleteDelete(w)

SpecCatalog == InitCatalog /\ [][NextCatalog]_vars

\* two workers of the orders service, each serving one rpc, on a table that
\* order creation left behind
NextOrders ==
    \E w \in Workers :
        \/ \E order \in UpdateInputs : RpcOrdersUpdate(w, order)
        \/ \E order_id \in 1..(MaxOrders + 1) : RpcOrdersDelete(w, order_id)
        \/ \E order_id \in 1..(MaxOrders + 1) : RpcOrdersGet(w, order_id)

SpecOrders == InitRead /\ [][NextOrders]_vars

TypeOK ==
    /\ DOMAIN client = Keys
    /\ pc \in {"idle", "enrich", "create", "dispatch", "done"}

\* ------------------------------------------------------------------ claims
\* the catalog holds a record under the key of product_id
HasRecord(product_id) == DOMAIN client[_format_key(product_id)] # {}

\* a create_order request is taken in by this step
CreateOrderStarts == pc = "idle" /\ op' = "create_order"

\* C1: create_order with a line item whose product_id has no record in the
\* catalog fails with ProductNotFound naming such an id, and the orders table
\* and the order count are after the call what they were before it.
C1_UnknownProductRejected ==
    [][ ( /\ CreateOrderStarts
          /\ \E i \in DOMAIN args'.order_details :
                ~HasRecord(args'.order_details[i].product_id) )
        => /\ pc' = "done"
           /\ result'.status = "error"
           /\ result'.kind = "ProductNotFound"
           /\ \E i \in DOMAIN args'.order_details :
                /\ ~HasRecord(args'.order_details[i].product_id)
                /\ result'.arg \in { args'.order_details[i].product_id,
                                     _format_key(args'.order_details[i].product_id) }
           /\ orders' = orders
           /\ next_order_id' = next_order_id ]_vars

\* the persisted line items match the posted ones one for one, in order
SameItems(persisted, posted) ==
    /\ Len(persisted) = Len(posted)
    /\ \A i \in DOMAIN posted :
        /\ persisted[i].product_id = posted[i].product_id
        /\ persisted[i].price = posted[i].price
        /\ persisted[i].quantity = posted[i].quantity

\* C2: create_order with every product_id present in the catalog persists
\* exactly one new order whose line items match the input one for one, returns
\* its id and triggers exactly one order_created notification carrying it.
C2_ValidOrderCreated ==
    [][ /\ ( /\ CreateOrderStarts
             /\ \A i \in DOMAIN args'.order_details :
                   HasRecord(args'.order_details[i].product_id) )
           => pc' = "create"
        /\ (pc = "create" /\ pc' # "create")
           => /\ Len(orders') = Len(orders) + 1
              /\ SubSeq(orders', 1, Len(orders)) = orders
              /\ SameItems(orders'[Len(orders')].order_details, args.order_details)
              /\ local' = orders'[Len(orders')]
        /\ (pc = "dispatch" /\ pc' # "dispatch")
           => /\ result' = Ok(local.id)
              /\ events' = Append(events, [type |-> "order_created", order |-> local]) ]_vars

\* C3: when the order is persisted and publishing order_created fails, the
\* order stays persisted and create_order still returns the new order's id.
C3_PublishFailureNotReported ==
    [][ ( /\ pc = "dispatch"
          /\ pc' = "done"
          /\ ~calls'[Len(calls')].published )
        => /\ orders' = orders
           /\ result' = Ok(local.id) ]_vars

\* C4: an order_created notification is emitted only for an order this request
\* committed to the orders table before, and for no order twice; a create_order
\* that fails validation emits nothing and persists nothing.
C4_NotifyOnlyPersisted ==
    [][ /\ (pc = "create" /\ pc' # "create") => local' \in Range(orders')
        /\ events' # events
           => \E e \in Range(events') :
                /\ events' = Append(events, e)
                /\ e.type = "order_created"
                /\ e.order = local
                /\ e.order.id < next_order_id
                /\ \E k \in DOMAIN calls :
                      calls[k].call = "db.commit" /\ calls[k].order_id = e.order.id
                /\ \A j \in DOMAIN events : events[j].order.id # e.order.id
        /\ (CreateOrderStarts /\ pc' = "done")
           => /\ events' = events
              /\ orders' = orders
              /\ next_order_id' = next_order_id ]_vars

\* an order was created and notified, and a later request failed validation
C4_Witness ==
    /\ Len(events) = 1
    /\ Len(orders) = 1
    /\ pc = "done"
    /\ op = "create_order"
    /\ result.status = "error"
    /\ Len(calls) = 1

IdLists == UNION { [1..n -> ProductIds] : n \in 1..2 }

\* C5: list(ids) with ids given returns exactly the records of the ids that
\* have one and leaves the others out; a missing id is no NotFound.
C5_ListOmitsMissing ==
    \A product_ids \in IdLists :
        \A listed \in StorageList(client, product_ids) :
            /\ listed.status = "ok"
            /\ { prod.id : prod \in listed.value }
                 = { p \in Range(product_ids) : HasRecord(p) }

\* page and limit as get_orders passes them on
PageOf(request_args) ==
    IF "page" \in DOMAIN request_args THEN request_args["page"] ELSE DEFAULT_PAGE
LimitOf(request_args) ==
    IF "limit" \in DOMAIN request_args THEN request_args["limit"] ELSE DEFAULT_LIMIT

GetOrdersStarts == pc = "idle" /\ op' = "get_orders"
ValidQuery(request_args) == PageOf(request_args) >= 1 /\ LimitOf(request_args) >= 1

\* the line items being enriched
ItemsInHand ==
    IF op = "get_orders" THEN PageItems(local.data) ELSE local.order_details

\* C6: when a page or an order is enriched and a line item's product_id has no
\* record in the catalog, enrichment fails with ProductNotFound, not with
\* another kind of error and not with a line item lacking its product.
C6_DriftIsProductNotFound ==
    [][ ( /\ pc = "enrich"
          /\ pc' = "done"
          /\ \E i \in DOMAIN ItemsInHand : ~HasRecord(ItemsInHand[i].product_id) )
        => /\ result'.status = "error"
           /\ result'.kind = "ProductNotFound" ]_vars

\* n = ceil(total / limit), said without the division
IsCeilOf(n, total, limit) == n * limit >= total /\ (n - 1) * limit < total

Metadata(page) ==
    [page |-> page.page, limit |-> page.limit, total |-> page.total,
     total_pages |-> page.total_pages, has_next |-> page.has_next]

\* C7: for page >= 1 and limit >= 1, list_orders has total = number of stored
\* orders, total_pages = ceil(total / limit), has_next = (page < total_pages),
\* page and limit as asked; enrichment leaves these fields as they were.
C7_PaginationMetadata ==
    [][ /\ (GetOrdersStarts /\ ValidQuery(args'))
           => /\ pc' \in {"enrich", "done"}
              /\ pc' = "done" => result'.status = "ok"
              /\ LET page == IF pc' = "done" THEN result'.value ELSE local'
                 IN  /\ page.page = PageOf(args')
                     /\ page.limit = LimitOf(args')
                     /\ page.total = Len(orders)
                     /\ IsCeilOf(page.total_pages, page.total, page.limit)
                     /\ page.has_next = (page.page < page.total_pages)
        /\ (pc = "enrich" /\ op = "get_orders" /\ pc' = "done" /\ result'.status = "ok")
           => Metadata(result'.value) = Metadata(local) ]_vars

\* page 1 of 2 with one order a page, enriched
C7_Witness ==
    /\ pc = "done"
    /\ op = "get_orders"
    /\ result.status = "ok"
    /\ result.value.total = 2
    /\ result.value.limit = 1
    /\ result.value.page = 1
    /\ result.value.has_next
    /\ Len(result.value.data) = 1
    /\ Len(calls) = 3

NoCall(log, names) == \A k \in DOMAIN log : log[k].call \notin names

\* C8: list_orders with page < 1 or limit < 1 fails with InvalidQueryParam,
\* before any order is read and without a catalog lookup.
C8_InvalidQueryRejected ==
    (op = "get_orders" /\ ~ValidQuery(args))
    => /\ pc = "done"
       /\ result.status = "error"
       /\ result.kind = "OrderInvalidQueryParam"
       /\ NoCall(calls, {"db.query", "products.list"})

\* limit = 0 on a page that exists, with orders in the table
C8_Witness ==
    /\ pc = "done"
    /\ op = "get_orders"
    /\ PageOf(args) = 1
    /\ LimitOf(args) = 0
    /\ Len(orders) = 2

\* C9: when the page holds no row (no order at all, or a page past the last
\* order), list_orders returns data = [] with total, total_pages and has_next
\* computed from the total, and makes no catalog lookup.
C9_EmptyPageShortCircuit ==
    [][ /\ ( /\ GetOrdersStarts
             /\ ValidQuery(args')
             /\ (PageOf(args') - 1) * LimitOf(args') >= Len(orders) )
           => /\ pc' = "done"
              /\ result'.status = "ok"
              /\ result'.value.data = <<>>
              /\ result'.value.total = Len(orders)
              /\ IsCeilOf(result'.value.total_pages, Len(orders), LimitOf(args'))
              /\ result'.value.has_next
                    = (PageOf(args') < result'.value.total_pages)
              /\ NoCall(calls', {"products.list"})
        /\ ( /\ pc' = "done"
             /\ op' = "get_orders"
             /\ result'.status = "ok"
             /\ result'.value.data = <<>> )
           => NoCall(calls', {"products.list"}) ]_vars

\* page 2 of a table of two orders, two a page
C9_Witness ==
    /\ pc = "done"
    /\ op = "get_orders"
    /\ result.status = "ok"
    /\ result.value.data = <<>>
    /\ result.value.total = 2
    /\ result.value.page = 2
    /\ result.value.total_pages = 1

Lookups(log) == { k \in DOMAIN log : log[k].call = "products.list" }

\* C10: enriching a non-empty page makes exactly one ProductCatalog.list call,
\* after the OrderStore.list call, with the product ids of all line items of
\* the page, each once.
C10_OneBulkLookup ==
    [][ /\ (pc' = "enrich" /\ op' = "get_orders")
           => /\ Lookups(calls') = {}
              /\ local'.data # <<>>
        /\ (pc = "enrich" /\ op = "get_orders" /\ pc' = "done")
           => /\ Cardinality(Lookups(calls')) = 1
              /\ \A k \in Lookups(calls') :
                    /\ \E j \in 1..(k - 1) : calls'[j].call = "orders.list"
                    /\ Range(calls'[k].product_ids)
                         = { PageItems(local.data)[i].product_id :
                                i \in DOMAIN PageItems(local.data) }
                    /\ Len(calls'[k].product_ids)
                         = Cardinality(Range(calls'[k].product_ids)) ]_vars

\* a page of two orders with three line items of two products, enriched
C10_Witness ==
    /\ pc = "done"
    /\ op = "get_orders"
    /\ result.status = "ok"
    /\ Len(result.value.data) = 2
    /\ Len(PageItems(result.value.data)) >= 3
    /\ Cardinality(Lookups(calls)) = 1
    /\ \A k \in Lookups(calls) : Len(calls[k].product_ids) = 2

\* the image URLs of the products, written out
ImageOf == [p \in ProductIds |->
              IF p = "p1" THEN "http://img/p1.jpg" ELSE "http://img/p2.jpg"]

\* the line items a successful result carries
ResultItems(res) ==
    IF op = "get_orders" THEN PageItems(res.value.data) ELSE res.value.order_details

\* C11: in every successful list_orders or get_order result, every line item
\* carries the catalog record of its product_id as product and the image root,
\* "/", the product_id and ".jpg" as image URL; its id, product_id, price and
\* quantity are those of the stored line item.
C11_EnrichedLineItems ==
    [][ (pc = "enrich" /\ pc' = "done" /\ result'.status = "ok")
        => /\ Len(ResultItems(result')) = Len(ItemsInHand)
           /\ \A i \in DOMAIN ItemsInHand :
                LET item == ResultItems(result')[i]
                    stored == ItemsInHand[i]
                IN  /\ item.id = stored.id
                    /\ item.product_id = stored.product_id
                    /\ item.price = stored.price
                    /\ item.quantity = stored.quantity
                    /\ item.product = StorageGet(client, stored.product_id).value
                    /\ item.product.id = stored.product_id
                    /\ item.image = ImageOf[stored.product_id] ]_vars

\* an order with line items of two products, enriched by get_order
C11_Witness ==
    /\ pc = "done"
    /\ op = "get_order"
    /\ result.status = "ok"
    /\ Len(result.value.order_details) = 2
    /\ result.value.order_details[1].product.id = "p2"
    /\ result.value.order_details[2].product.id = "p1"

\* in_stock of the record of product_id in the catalog cl
StockIn(cl, product_id) == Decode(cl[_format_key(product_id)]["in_stock"])

\* worker w serves an rpc of this name in this step
Serves(w, name) == worker[w].pc = "idle" /\ worker'[w].pc = "done" /\ worker'[w].op = name

\* worker w has served an rpc of this name
Served_(w, name) == worker[w].pc = "done" /\ worker[w].op = name

\* C12: decrement_stock(id, a) on a record takes a off in_stock and returns the
\* value in_stock has right after; when another decrement_stock(id, b) was
\* served just before, from stock s, in_stock is left at s - a - b.
C12_NoLostDecrement ==
    [][ \A w \in Workers :
          Serves(w, "decrement_stock")
          => LET product_id == worker'[w].args.product_id
                 a == worker'[w].args.amount
             IN  /\ HasRecord(product_id)
                    => /\ StockIn(client', product_id) = StockIn(client, product_id) - a
                       /\ worker'[w].ret = Ok(StockIn(client', product_id))
                       /\ \A f \in DOMAIN client[_format_key(product_id)] \ {"in_stock"} :
                             client'[_format_key(product_id)][f]
                               = client[_format_key(product_id)][f]
                 /\ \A u \in Workers \ {w} :
                       ( /\ Served_(u, "decrement_stock")
                         /\ worker[u].args.product_id = product_id
                         /\ HasRecord(product_id) )
                       => LET b == worker[u].args.amount
                              stock == worker[u].ret.value + b
                          IN  /\ StockIn(client', product_id) = stock - a - b
                              /\ worker'[w].ret.value \in {stock - a, stock - a - b}
                              /\ worker[u].ret.value \in {stock - b, stock - a - b}
                              /\ worker'[w].ret.value # worker[u].ret.value ]_vars

\* decrement_stock('p1', 1) and decrement_stock('p1', 2) served on a record
\* with no stock
C12_Witness ==
    /\ Served_("w1", "decrement_stock")
    /\ Served_("w2", "decrement_stock")
    /\ worker["w1"].args = [product_id |-> "p1", amount |-> 1]
    /\ worker["w2"].args = [product_id |-> "p1", amount |-> 2]
    /\ DOMAIN client["products:p1"] = Range(FieldOrder)
    /\ StockIn(client, "p1") = -3
    /\ worker["w2"].ret = Ok(-2)
    /\ worker["w1"].ret = Ok(-3)

\* the rows at positions offset+1 .. offset+limit of the table, as far as it goes
SliceOf(rows, page, limit) ==
    LET offset == (page - 1) * limit
        left == IF Len(rows) - offset > 0 THEN Len(rows) - offset ELSE 0
        n == IF limit < left THEN limit ELSE left
    IN  [i \in 1..n |-> rows[offset + i]]

\* the rows of pages 1..k of list, one page after the other
RECURSIVE PagesUpTo(_, _, _)
PagesUpTo(rows, limit, k) ==
    IF k = 0 THEN <<>>
    ELSE PagesUpTo(rows, limit, k - 1) \o OrdersList(rows, k, limit).value.data

\* C13: list(page, limit) with page >= 1 and limit >= 1 returns the orders at
\* positions offset .. offset+limit-1 of the table, offset = (page-1)*limit:
\* min(limit, max(0, total - offset)) rows, none and no error past the end;
\* pages 1..total_pages together are the table, every order once.
C13_PageIsSlice ==
    [][ (GetOrdersStarts /\ ValidQuery(args'))
        => /\ pc' = "done" => result'.status = "ok"
           /\ LET page == IF pc' = "done" THEN result'.value ELSE local'
              IN  /\ page.data = SliceOf(orders, PageOf(args'), LimitOf(args'))
                  /\ PagesUpTo(orders, LimitOf(args'), page.total_pages) = orders ]_vars

\* page 2 of a table of two orders, one a page: the second order
C13_Witness ==
    /\ pc = "enrich"
    /\ op = "get_orders"
    /\ Len(orders) = 2
    /\ local.page = 2
    /\ local.limit = 1
    /\ local.data = <<orders[2]>>

\* the row of the table with this order id exists
HasOrder(order_id) == QueryGet(orders, order_id) # {}

\* C14: update(order) on an existing order succeeds and overwrites price and
\* quantity of exactly the persisted line items whose id is in the input; the
\* line items the input does not mention keep theirs, input line items that
\* match no persisted one change nothing, other orders are unchanged.
C14_UpdateOverwritesMatching ==
    [][ \A w \in Workers :
          (Serves(w, "update") /\ HasOrder(worker'[w].args.order.id))
          => LET order == worker'[w].args.order
             IN  /\ worker'[w].ret.status = "ok"
                 /\ Len(orders') = Len(orders)
                 /\ \A k \in DOMAIN orders :
                       IF orders[k].id # order.id
                       THEN orders'[k] = orders[k]
                       ELSE /\ orders'[k].id = orders[k].id
                            /\ Len(orders'[k].order_details) = Len(orders[k].order_details)
                            /\ \A i \in DOMAIN orders[k].order_details :
                                  LET old == orders[k].order_details[i]
                                      new == orders'[k].order_details[i]
                                      given == { j \in DOMAIN order.order_details :
                                                   order.order_details[j].id = old.id }
                                  IN  IF given = {}
                                      THEN new = old
                                      ELSE /\ new.id = old.id
                                           /\ new.product_id = old.product_id
                                           /\ \E j \in given :
                                                /\ new.price = order.order_details[j].price
                                                /\ new.quantity = order.order_details[j].quantity
    ]_vars

\* C15: update(order) with an order id that the table does not hold fails with
\* NotFound and leaves the table as it was.
C15_UpdateUnknownIsNotFound ==
    [][ \A w \in Workers :
          (Serves(w, "update") /\ ~HasOrder(worker'[w].args.order.id))
          => /\ worker'[w].ret.status = "error"
             /\ worker'[w].ret.kind = "NotFound"
             /\ orders' = orders ]_vars

\* C16: delete(id) fails with NotFound when no order has the id and leaves the
\* table as it was; otherwise it removes that order with its line items and no
\* other, after which get(id) fails with NotFound and the total of list is one
\* less.
C16_DeleteRemovesOrNotFound ==
    [][ \A w \in Workers :
          Serves(w, "delete")
          => LET order_id == worker'[w].args.order_id
             IN  IF ~HasOrder(order_id)
                 THEN /\ worker'[w].ret.status = "error"
                      /\ worker'[w].ret.kind = "NotFound"
                      /\ orders' = orders
                 ELSE /\ worker'[w].ret.status = "ok"
                      /\ Range(orders') = { o \in Range(orders) : o.id # order_id }
                      /\ Len(orders') = Len(orders) - 1
                      /\ OrdersGet(orders', order_id) = Err("NotFound", order_id)
                      /\ OrdersList(orders', 1, 1).value.total
                           = OrdersList(orders, 1, 1).value.total - 1 ]_vars

\* C17: delete(id) fails with NotFound when the id has no record, and
\* otherwise removes that record and no other, after which get(id) fails with
\* NotFound; of two delete(id) calls on one existing record at most one
\* succeeds.
C17_DeleteOnceOrNotFound ==
    [][ \A w \in Workers :
          /\ (worker[w].pc = "idle" /\ worker'[w].op = "delete")
             => LET product_id == worker'[w].args.product_id
                IN  /\ client' = client
                    /\ IF HasRecord(product_id)
                       THEN worker'[w].pc = "delete"
                       ELSE /\ worker'[w].pc = "done"
                            /\ worker'[w].ret = Err("NotFound", product_id)
          /\ (worker[w].pc = "delete" /\ worker'[w].pc = "done")
             => LET product_id == worker[w].args.product_id
                IN  /\ worker'[w].ret.status = "ok"
                    /\ \A k \in Keys :
                          client'[k] = IF k = _format_key(product_id)
                                       THEN EmptyHash ELSE client[k]
                    /\ StorageGet(client', product_id) = Err("NotFound", product_id)
                    /\ \A u \in Workers \ {w} :
                          ~ ( /\ Served_(u, "delete")
                              /\ worker[u].args.product_id = product_id
                              /\ worker[u].ret.status = "ok" ) ]_vars

\* C18: every order that create_order persists references only product ids
\* that have a record in the catalog at the moment it is persisted, whatever
\* deletes run between the existence check and the creation.
C18_NoDanglingProductId ==
    [][ (pc = "create" /\ pc' = "dispatch")
        => \A i \in DOMAIN local'.order_details :
              HasRecord(local'.order_details[i].product_id) ]_vars

\* C19: every record the catalog holds has all five product fields, so that
\* get and the full-scan list decode it; decrement_stock on an id with no
\* record brings no record into existence.
C19_RecordsComplete ==
    /\ \A product_id \in ProductIds :
          HasRecord(product_id)
          => /\ DOMAIN client[_format_key(product_id)] = Range(FieldOrder)
             /\ StorageGet(client, product_id).status = "ok"
    /\ \A listed \in StorageList(client, <<>>) : listed.status = "ok"

\* C20: list called with an empty id collection returns no records, whatever
\* the catalog holds.
C20_EmptyIdsListNothing ==
    [][ \A w \in Workers :
          (Serves(w, "list") /\ worker'[w].args.product_ids = <<>>)
          => worker'[w].ret = Ok({}) ]_vars

\* C21: in every successful list_orders response on a table not modified
\* during the call, has_next implies that data holds exactly limit orders, an
\* empty data implies no has_next, and data is non-empty exactly when
\* page <= total_pages.
C21_MetadataAgreesWithRows ==
    (pc = "done" /\ op = "get_orders" /\ result.status = "ok")
    => LET page == result.value
       IN  /\ page.has_next => Len(page.data) = page.limit
           /\ Len(page.data) = 0 => ~page.has_next
           /\ (Len(page.data) > 0) = (page.page <= page.total_pages)
           /\ page.total = Len(orders)

\* the last page, holding fewer orders than limit: one order, two a page
C21_Witness ==
    /\ pc = "done"
    /\ op = "get_orders"
    /\ result.status = "ok"
    /\ result.value.page = 1
    /\ result.value.limit = 2
    /\ result.value.total_pages = 1
    /\ Len(result.value.data) = 1
    /\ ~result.value.has_next

====
